---- MODULE Spec2Model ----
(***************************************************************************)
(* State-machine model of src/trans.py: the slot pool of SmartTranslator,  *)
(* translate_with_smart_retry, the two batch translators, the per-file     *)
(* pipeline translate_single_file_ultra_fast and the collection driver     *)
(* translate_multiple_files_sequential.                                    *)
(*                                                                         *)
(* Time is relative: instead of time.time() and last_request_times the     *)
(* state holds, per slot, the age  now - last_request_times[slot]  in      *)
(* ticks, saturated above the window length.  Tick lets one tick pass.     *)
(* The numeric parameters of the source (45 requests, 0.08 s, 60 s, 4      *)
(* translators, batches of 25 / 10 / 5) are scaled down, keeping their     *)
(* order; the scaled values are the bounds of the model.                   *)
(***************************************************************************)
EXTENDS Integers, Sequences, FiniteSets, TLC

(* ----------------------------- parameters ------------------------------ *)

\* range(4) at line 27; scaled.
NumTranslators == 2
\* self.max_requests_per_minute = 45; scaled.
max_requests_per_minute == 2
\* self.min_delay_between_requests = 0.08 (seconds); one tick.
min_delay_between_requests == 1
\* the 60 (seconds) of should_wait, in ticks; scaled, not shorter than any backoff.
Window == 2
\* time.sleep(0.1) of the polling loop, in ticks (not shorter than the delay).
PollSleep == 1
\* max_retries=3, the default the batch translators use.
max_retries == 3
\* batch_size = 25 of translate_single_file_ultra_fast; scaled.
batch_size == 3
\* the 10 of `if len(batch) <= 10`; scaled.
threaded_limit == 2
\* batch_size = 5 of translate_batch_threaded_safe; scaled: a batch of
\* threaded_limit texts is cut into threaded_limit \div thread_batch_size chunks.
thread_batch_size == 1
\* The same 5, scaled for the batches that fit into one chunk, as a batch of
\* at most 5 texts does.
WholeBatchChunk == threaded_limit
\* A backoff after another error that may last 1.2 s.
BackoffOtherLong == {200, 1200}
\* time.sleep(random.uniform(0.2, 0.8)): the bounds of the interval, in
\* milliseconds; a length between them behaves as one of them.
BackoffOther == {200, 800}
\* time.sleep(random.uniform(0.5, 1.5)), likewise.
BackoffRate == {500, 1500}
\* The ticks a sleep of ms milliseconds lasts; scaled, within the window.
SleepTicks(ms) == IF ms > 1000 THEN 2 ELSE 1
\* time.sleep(0.1) between batches and time.sleep(0.2) between files, in ticks.
BatchPause == PollSleep
FilePause == 2 * PollSleep

\* An age above the window: every larger age behaves the same.
Expired == Window + 1

Slots == 0..(NumTranslators - 1)
\* The threads one threaded batch starts: one per chunk of thread_batch_size.
NumThreads == (threaded_limit + thread_batch_size - 1) \div thread_batch_size
Main == 0
Threads == 1..NumThreads
Workers == {Main} \cup Threads

(* ------------------------------- texts --------------------------------- *)

\* A text is a sequence of characters.
Whitespace == {" ", "\t", "\n", "\r"}
Empty == <<>>
Blank == <<" ">>
TextA == <<"a">>
TextB == <<"b">>
\* A text of two lines.
TextAB == <<"a", "\n", "b">>

RECURSIVE LStrip(_)
LStrip(t) == IF t = <<>> THEN t
             ELSE IF Head(t) \in Whitespace THEN LStrip(Tail(t)) ELSE t

RECURSIVE RStrip(_)
RStrip(t) == IF t = <<>> THEN t
             ELSE IF t[Len(t)] \in Whitespace THEN RStrip(SubSeq(t, 1, Len(t) - 1)) ELSE t

\* str.strip()
Strip(t) == RStrip(LStrip(t))

\* The answers of the Translation Port for a text: the port need not answer
\* the same way twice.
PortAnswers(t) == {<<"x">> \o t, <<"y">> \o t}

(* ----------------------------- dictionaries ---------------------------- *)

EmptyDict == <<>>

\* An update that keeps the new mapping only.
DictReplace(d, e) == e

\* dict.update
DictUpdate(d, e) == [k \in (DOMAIN d) \cup (DOMAIN e) |-> IF k \in DOMAIN e THEN e[k] ELSE d[k]]

\* d[k] = v
DictSet(d, k, v) == [x \in (DOMAIN d) \cup {k} |-> IF x = k THEN v ELSE d[x]]

\* A drain that takes one item off the queue only.
DrainFirstOnly(d, q) == IF q = <<>> THEN d ELSE DictUpdate(d, Head(q))

RECURSIVE DrainQueue(_, _)
\* while not result_queue.empty(): results.update(result_queue.get())
DrainQueue(d, q) == IF q = <<>> THEN d ELSE DrainQueue(DictUpdate(d, Head(q)), Tail(q))

Min(a, b) == IF a < b THEN a ELSE b
Max(a, b) == IF a > b THEN a ELSE b

(* ----------------------------- serialization --------------------------- *)

DigitChars == <<"0", "1", "2", "3", "4", "5", "6", "7", "8", "9">>

RECURSIVE Str(_)
\* str(n) / f"{n:d}" for n >= 0
Str(n) == IF n < 10 THEN <<DigitChars[n + 1]>> ELSE Str(n \div 10) \o <<DigitChars[(n % 10) + 1]>>

RECURSIVE Pad(_, _)
\* f"{n:0wd}"
Pad(n, w) == IF Len(Str(n)) >= w THEN Str(n) ELSE <<"0">> \o Pad(n, w - 1)

\* A timing written with the microseconds in place of the milliseconds.
TimeStrMicros(us) ==
    LET ms == us \div 1000
    IN  Pad(ms \div 3600000, 2) \o <<":">> \o Pad((ms \div 60000) % 60, 2) \o <<":">>
        \o Pad((ms \div 1000) % 60, 2) \o <<",">> \o Pad(us % 1000000, 3)

\* f"{t.hour:02d}:{t.minute:02d}:{t.second:02d},{t.microsecond//1000:03d}",
\* the time given in microseconds
TimeStr(us) ==
    LET ms == us \div 1000
    IN  Pad(ms \div 3600000, 2) \o <<":">> \o Pad((ms \div 60000) % 60, 2) \o <<":">>
        \o Pad((ms \div 1000) % 60, 2) \o <<",">> \o Pad(ms % 1000, 3)

\* A serialization that keeps the index the entry came with.
EntryLinesKeepIndex(n, sub) ==
    << Str(sub.index),
       TimeStr(sub.start) \o <<" ", "-", "-", ">", " ">> \o TimeStr(sub.end),
       sub.text,
       <<>> >>

\* The lines srt_to_string appends for entry number n.
EntryLines(n, sub) ==
    << Str(n),
       TimeStr(sub.start) \o <<" ", "-", "-", ">", " ">> \o TimeStr(sub.end),
       sub.text,
       <<>> >>

RECURSIVE AllLines(_, _)
AllLines(subs, n) == IF n > Len(subs) THEN <<>>
                     ELSE EntryLines(n, subs[n]) \o AllLines(subs, n + 1)

RECURSIVE Join(_)
\* "\n".join(lines)
Join(lines) == IF lines = <<>> THEN <<>>
               ELSE IF Len(lines) = 1 THEN lines[1]
               ELSE lines[1] \o <<"\n">> \o Join(Tail(lines))

srt_to_string(subs) == Join(AllLines(subs, 1))

(* ------------------------------- parsing ------------------------------- *)

\* The subtitle grammar: blocks separated by blank lines, each an index line,
\* a timing line HH:MM:SS,mmm --> HH:MM:SS,mmm and the text lines (none for
\* an empty text).

RECURSIVE SplitLines(_)
\* The lines of s, "\n" being the line separator.
SplitLines(s) ==
    IF \A i \in 1..Len(s) : s[i] # "\n" THEN <<s>>
    ELSE LET i == CHOOSE j \in 1..Len(s) : s[j] = "\n" /\ \A k \in 1..(j - 1) : s[k] # "\n"
         IN  <<SubSeq(s, 1, i - 1)>> \o SplitLines(SubSeq(s, i + 1, Len(s)))

IsBlankLine(l) == Strip(l) = <<>>

RECURSIVE Blocks(_, _)
\* The blocks of non-blank lines; cur is the block being read.
Blocks(lines, cur) ==
    IF lines = <<>> THEN (IF cur = <<>> THEN <<>> ELSE <<cur>>)
    ELSE IF IsBlankLine(Head(lines))
         THEN (IF cur = <<>> THEN <<>> ELSE <<cur>>) \o Blocks(Tail(lines), <<>>)
         ELSE Blocks(Tail(lines), Append(cur, Head(lines)))

IsDigit(c) == \E d \in 1..10 : DigitChars[d] = c
DigitValue(c) == (CHOOSE d \in 1..10 : DigitChars[d] = c) - 1

RECURSIVE ParseInt(_)
ParseInt(ds) == IF ds = <<>> THEN 0 ELSE 10 * ParseInt(SubSeq(ds, 1, Len(ds) - 1)) + DigitValue(ds[Len(ds)])

IsNumber(l) == l # <<>> /\ \A i \in 1..Len(l) : IsDigit(l[i])

\* HH:MM:SS,mmm
IsTime(l) ==
    /\ Len(l) = 12
    /\ \A i \in {1, 2, 4, 5, 7, 8, 10, 11, 12} : IsDigit(l[i])
    /\ l[3] = ":" /\ l[6] = ":" /\ l[9] = ","

\* The time in microseconds.
ParseTime(l) ==
    1000 * (3600000 * ParseInt(SubSeq(l, 1, 2)) + 60000 * ParseInt(SubSeq(l, 4, 5))
            + 1000 * ParseInt(SubSeq(l, 7, 8)) + ParseInt(SubSeq(l, 10, 12)))

Arrow == <<" ", "-", "-", ">", " ">>

IsTiming(l) ==
    /\ Len(l) = 29
    /\ IsTime(SubSeq(l, 1, 12))
    /\ SubSeq(l, 13, 17) = Arrow
    /\ IsTime(SubSeq(l, 18, 29))

IsBlock(b) == Len(b) >= 2 /\ IsNumber(b[1]) /\ IsTiming(b[2])

ParseBlock(b) ==
    [index |-> ParseInt(b[1]),
     start |-> ParseTime(SubSeq(b[2], 1, 12)),
     end |-> ParseTime(SubSeq(b[2], 18, 29)),
     text |-> Join(SubSeq(b, 3, Len(b)))]

\* parse(raw): the entries, or a format error.
Parse(raw) ==
    LET bs == Blocks(SplitLines(raw), <<>>)
    IN  IF \A k \in 1..Len(bs) : IsBlock(bs[k])
        THEN [ok |-> TRUE, entries |-> [k \in 1..Len(bs) |-> ParseBlock(bs[k])], error |-> ""]
        ELSE [ok |-> FALSE, entries |-> <<>>, error |-> "format error"]

(* -------------------------------- inputs ------------------------------- *)

\* pysrt.from_string either raises on the raw content or yields the entries;
\* an input document is given by that outcome.  Times are in microseconds.
Sub(k, t) == [index |-> k, start |-> 1000000 * k, end |-> 1000000 * k + 500000, text |-> t]
GoodDoc(texts) == [ok |-> TRUE, entries |-> [k \in 1..Len(texts) |-> Sub(k, texts[k])], error |-> ""]
BadDoc == [ok |-> FALSE, entries |-> <<>>, error |-> "invalid timestamp"]
FileInfo(n, d) == [name |-> n, content |-> d]

\* Port invocations per text are counted up to this number.
MaxCounted == 2

\* A file name is a sequence of characters: a.srt, b.en.srt, c.srt.
Names == << <<"a", ".", "s", "r", "t">>,
            <<"b", ".", "e", "n", ".", "s", "r", "t">>,
            <<"c", ".", "s", "r", "t">> >>
Files(docs) == [k \in 1..Len(docs) |-> FileInfo(Names[k], docs[k])]
SeqsUpTo(S, n) == UNION {[1..k -> S] : k \in 0..n}

\* Collections of up to three files: malformed ones, ones with nothing to
\* translate, ones with one text.
CollDocs == {BadDoc, GoodDoc(<<Blank>>), GoodDoc(<<TextA>>)}
CollInputs == {Files(ds) : ds \in SeqsUpTo(CollDocs, Len(Names))}

\* Single documents whose texts repeat, some of them empty or blank: batches
\* of one text and of more than threaded_limit texts.
DocInputs == {Files(<<GoodDoc(ts)>>) :
                ts \in {<<>>, <<Empty, TextA>>, <<TextA, TextA, TextA>>, <<TextA, TextB, TextA>>,
                        <<TextA, Blank, TextB, TextA, Empty, TextA>>}}

\* Documents whose batch of two texts is translated by two threads.
ThreadInputs == {Files(<<GoodDoc(ts)>>) : ts \in {<<TextA, TextA>>, <<TextA, TextB>>}}

\* A collection with a malformed file between two others, and a document
\* whose batch is translated sequentially.
LiveInputs ==
    { Files(<<GoodDoc(<<Blank>>), BadDoc, GoodDoc(<<TextA>>)>>),
      Files(<<GoodDoc(<<TextA, TextA, TextA>>)>>) }

\* A document as a subtitle file numbered 5, 9, 9 gives it: an entry of one
\* line at 00:02:03,004 --> 00:02:03,050, an entry without text, an entry of
\* two lines at 00:00:10,000 --> 00:35:00,999.
OddDoc ==
    [ok |-> TRUE,
     entries |-> << [index |-> 5, start |-> 123004000, end |-> 123050000, text |-> TextA],
                    [index |-> 9, start |-> 124000000, end |-> 125000000, text |-> Empty],
                    [index |-> 9, start |-> 10000000, end |-> 2100999000, text |-> TextAB] >>,
     error |-> ""]

\* A document whose first batch is translated sequentially and whose second
\* batch, of the same texts, by two threads.
ModeInputs == {Files(<<GoodDoc(<<TextA, TextB, TextA, TextB, TextA>>)>>)}

FormatInputs == {Files(<<OddDoc>>), Files(<<GoodDoc(<<Empty>>), GoodDoc(<<>>)>>)}

NoContent == <<"None">>

(* -------------------------------- state -------------------------------- *)

VARIABLES
    \* translate_multiple_files_sequential
    file_info_list, fidx, results, cpc,
    \* translate_single_file_ultra_fast
    dpc, subs, texts_to_translate, batch_idx, translated_texts,
    \* translate_batch_sequential (Main) and translate_worker (a thread)
    work, pos, wres, result_queue,
    \* translate_with_smart_retry, per worker
    wpc, text, attempt, tmp, translator, translator_index, translated,
    sleepLeft, elapsed,
    \* SmartTranslator
    current_translator_index, request_counts, last_request_age,
    \* the Translation Port behind translator.translate: "reliable" (every
    \* call returns) or "faulty" (a call returns or raises)
    port_mode,
    \* the chunk length translate_batch_threaded_safe cuts a batch by (its
    \* local batch_size, line 126), fixed when the run starts:
    \* thread_batch_size, or WholeBatchChunk for batches no longer than a chunk
    thread_chunk,
    \* the caller's wish to cancel the run; the engine takes no such signal, so
    \* no step of it reads this
    cancel_requested,
    \* history: port invocations and port answers per text and port failures
    \* of the current document; invocations and failures of a worker's
    \* current call
    port_calls, port_answers, port_failed, nCalls, nFails,
    \* history of the pool: per slot, the ages of the port calls made through
    \* it within the last Window ticks (the youngest max_requests_per_minute+1
    \* of them), the value its counter has if every update is atomic, and
    \* whether a call through it has succeeded; per worker, how its last
    \* failed attempt failed
    issued, expected, used, last_failure,
    \* the callbacks: the threads that have invoked overall_progress_callback
    \* and progress_callback so far, and the threads that are inside
    \* overall_progress_callback now
    overall_by, progress_by, in_overall,
    \* the values overall_progress_callback has been invoked with, as
    \* fractions, in the order of the invocations
    overall_log,
    \* create_zip_file: its argument and the entries of the archive it built
    translated_files, zip_file,
    \* history of the current pool and document: the slots the last
    \* NumTranslators calls of get_next_translator returned; per worker, the
    \* slot its last failed attempt went through and the length in
    \* milliseconds of the backoff it is in; the batch messages of line 203
    \* with the batches they announce
    selections, failed_slot, backoff_ms, batch_log

collVars == <<file_info_list, port_mode, thread_chunk, cancel_requested, fidx, results, cpc>>
docVars == <<dpc, subs, texts_to_translate, batch_idx, translated_texts>>
batchVars == <<work, pos, wres, result_queue>>
retryVars == <<wpc, text, attempt, tmp, translator, translator_index, translated>>
timeVars == <<sleepLeft, elapsed>>
poolVars == <<current_translator_index, request_counts, last_request_age>>
histVars == <<port_calls, port_answers, port_failed, nCalls, nFails>>
ghostVars == <<issued, expected, used, last_failure>>
cbVars == <<overall_by, progress_by, in_overall, overall_log>>
zipVars == <<translated_files, zip_file>>
traceVars == <<selections, failed_slot, backoff_ms, batch_log>>
vars == <<collVars, docVars, batchVars, retryVars, timeVars, poolVars, histVars, ghostVars, cbVars,
          zipVars, traceVars>>

\* SmartTranslator.__init__: the pool after construction.  last_request_times
\* is 0 and time.time() is the epoch time, so every slot's age is expired.
CountsAtLimit == [s \in Slots |-> max_requests_per_minute]
FreshCounts == [s \in Slots |-> 0]
FreshAges == [s \in Slots |-> Expired]
NoneIssued == [s \in Slots |-> <<>>]
NoneUsed == [s \in Slots |-> FALSE]
\* No attempt of the call has failed yet.
NoSlot == -1

InitSized(inputs, modes, chunk) ==
    /\ file_info_list \in inputs
    /\ port_mode \in modes
    /\ thread_chunk = chunk
    /\ cancel_requested = FALSE
    /\ fidx = 1
    /\ results = <<>>
    /\ cpc = "loop"
    /\ dpc = "idle"
    /\ subs = <<>>
    /\ texts_to_translate = <<>>
    /\ batch_idx = 0
    /\ translated_texts = EmptyDict
    /\ work = [w \in Workers |-> <<>>]
    /\ pos = [w \in Workers |-> 0]
    /\ wres = [w \in Workers |-> EmptyDict]
    /\ result_queue = <<>>
    /\ wpc = [w \in Workers |-> "idle"]
    /\ text = [w \in Workers |-> <<>>]
    /\ attempt = [w \in Workers |-> 0]
    /\ tmp = [w \in Workers |-> 0]
    /\ translator = [w \in Workers |-> 0]
    /\ translator_index = [w \in Workers |-> 0]
    /\ translated = [w \in Workers |-> <<>>]
    /\ sleepLeft = [w \in Workers |-> 0]
    /\ elapsed = [w \in Workers |-> 0]
    /\ current_translator_index = 0
    /\ request_counts = FreshCounts
    /\ last_request_age = FreshAges
    /\ port_calls = EmptyDict
    /\ port_answers = EmptyDict
    /\ port_failed = FALSE
    /\ nCalls = [w \in Workers |-> 0]
    /\ nFails = [w \in Workers |-> 0]
    /\ issued = NoneIssued
    /\ expected = FreshCounts
    /\ used = NoneUsed
    /\ last_failure = [w \in Workers |-> "none"]
    /\ overall_by = {}
    /\ progress_by = {}
    /\ in_overall = {}
    /\ overall_log = <<>>
    /\ translated_files = <<>>
    /\ zip_file = <<>>
    /\ selections = <<>>
    /\ failed_slot = [w \in Workers |-> NoSlot]
    /\ backoff_ms = [w \in Workers |-> 0]
    /\ batch_log = <<>>

InitWith(inputs, modes) == InitSized(inputs, modes, thread_batch_size)

Init == InitWith(CollInputs \cup DocInputs, {"faulty"})

(* ------------------------- SmartTranslator ----------------------------- *)

\* get_next_translator, the new cursor (line 35)
NextIndexByTwo(i) == (i + 2) % NumTranslators
NextIndex(i) == (i + 1) % NumTranslators

\* A pool in which it is always too soon.
TooSoonForever(age) == age <= Expired

\* should_wait, lines 43-45: too soon after the slot's last request
TooSoon(age) == age < min_delay_between_requests

\* A pool whose counters are never reset.
CountNeverReset(count, age) == count

\* should_wait, lines 47-49: the counter after the lazy reset
CountAfterReset(count, age) == IF age > Window THEN 0 ELSE count

\* A limit that is reached one request later.
AtLimitStrict(count) == count > max_requests_per_minute

\* should_wait, lines 51-53: the counter has reached the limit
AtLimit(count) == count >= max_requests_per_minute

\* should_wait as a function of the slot's state (a single, uninterrupted call)
should_wait(count, age) == TooSoon(age) \/ AtLimit(CountAfterReset(count, age))

\* A rate-limited failure that pushes the counter beyond the limit.
CountAboveLimit(count) == max_requests_per_minute + NumThreads

\* line 80: the counter after a rate-limited failure
CountAfterRateLimit(count) == max_requests_per_minute

\* A retry loop that tries once more.
AttemptsRemainLong(a) == a < max_retries

\* A retry loop that gives up one attempt early.
AttemptsRemainShort(a) == a < max_retries - 2

\* lines 81 and 84: attempts remain
AttemptsRemain(a) == a < max_retries - 1

(* -------------------- translate_with_smart_retry ----------------------- *)

\* The port invocations for text t in the current document, counted up to
\* MaxCounted.
Calls(t) == IF t \in DOMAIN port_calls THEN port_calls[t] ELSE 0

\* The answers the port has given for text t in the current document.
Answers(t) == IF t \in DOMAIN port_answers THEN port_answers[t] ELSE {}

\* The worker's slot as the counters see it, and the channel it calls through.
Slot(w) == translator_index[w]

\* The ages of a slot's port calls after one more call is made through it,
\* the youngest first.
Issue(ages) == SubSeq(<<0>> \o ages, 1, Min(Len(ages) + 1, max_requests_per_minute + 1))

\* The ages of a slot's port calls one tick later: a call leaves the window
\* when it is more than Window ticks old.
InWindow(age) == age <= Window
Older(ages) == SelectSeq([k \in 1..Len(ages) |-> ages[k] + 1], InWindow)

\* Entering translate_with_smart_retry(t) in worker w: the primed locals.
Enter(w, t) ==
    /\ text' = [text EXCEPT ![w] = t]
    /\ attempt' = [attempt EXCEPT ![w] = 0]
    /\ nCalls' = [nCalls EXCEPT ![w] = 0]
    /\ nFails' = [nFails EXCEPT ![w] = 0]
    /\ last_failure' = [last_failure EXCEPT ![w] = "none"]
    /\ failed_slot' = [failed_slot EXCEPT ![w] = NoSlot]

Goto(w, l) == wpc' = [wpc EXCEPT ![w] = l]

\* The last NumTranslators elements of a sequence of selections.
LastSelections(sel) == SubSeq(sel, Max(1, Len(sel) - NumTranslators + 1), Len(sel))

\* line 35, the read of self.current_translator_index
GetNextRead(w) ==
    /\ wpc[w] = "gn_read"
    /\ tmp' = [tmp EXCEPT ![w] = current_translator_index]
    /\ Goto(w, "gn_write")
    /\ UNCHANGED <<traceVars, zipVars, cbVars, collVars, docVars, batchVars, text, attempt, translator, translator_index,
                   translated, timeVars, poolVars, histVars, ghostVars>>

\* line 35, the write
GetNextWrite(w) ==
    /\ wpc[w] = "gn_write"
    /\ current_translator_index' = NextIndex(tmp[w])
    /\ tmp' = [tmp EXCEPT ![w] = 0]
    /\ Goto(w, "gn_obj")
    /\ UNCHANGED <<traceVars, zipVars, cbVars, collVars, docVars, batchVars, text, attempt, translator, translator_index,
                   translated, timeVars, request_counts, last_request_age, histVars, ghostVars>>

\* line 36, self.translators[self.current_translator_index]
GetNextObj(w) ==
    /\ wpc[w] = "gn_obj"
    /\ translator' = [translator EXCEPT ![w] = current_translator_index]
    /\ Goto(w, "gn_idx")
    /\ UNCHANGED <<traceVars, zipVars, cbVars, collVars, docVars, batchVars, text, attempt, tmp, translator_index,
                   translated, timeVars, poolVars, histVars, ghostVars>>

\* line 36, the second read of self.current_translator_index
GetNextIdx(w) ==
    /\ wpc[w] = "gn_idx"
    /\ translator_index' = [translator_index EXCEPT ![w] = current_translator_index]
    /\ Goto(w, "sw_age")
    /\ selections' = LastSelections(Append(selections, current_translator_index))
    /\ UNCHANGED <<failed_slot, backoff_ms, batch_log, zipVars, cbVars, collVars, docVars, batchVars, text, attempt, tmp, translator,
                   translated, timeVars, poolVars, histVars, ghostVars>>

\* should_wait, lines 40-49; on True the loop body's time.sleep(0.1) starts
ShouldWaitAge(w) ==
    /\ wpc[w] = "sw_age"
    /\ IF TooSoon(last_request_age[Slot(w)])
       THEN /\ Goto(w, "poll")
            /\ sleepLeft' = [sleepLeft EXCEPT ![w] = PollSleep]
            /\ UNCHANGED <<request_counts, expected>>
       ELSE /\ Goto(w, "sw_count")
            /\ request_counts' = [request_counts EXCEPT ![Slot(w)] =
                                    CountAfterReset(@, last_request_age[Slot(w)])]
            /\ expected' = [expected EXCEPT ![Slot(w)] =
                              CountAfterReset(@, last_request_age[Slot(w)])]
            /\ UNCHANGED sleepLeft
    /\ UNCHANGED <<traceVars, zipVars, cbVars, collVars, docVars, batchVars, text, attempt, tmp, translator, translator_index,
                   translated, elapsed, current_translator_index, last_request_age, histVars,
                   issued, used, last_failure>>

\* should_wait, lines 51-55
ShouldWaitCount(w) ==
    /\ wpc[w] = "sw_count"
    /\ IF AtLimit(request_counts[Slot(w)])
       THEN /\ Goto(w, "poll")
            /\ sleepLeft' = [sleepLeft EXCEPT ![w] = PollSleep]
       ELSE /\ Goto(w, "invoke")
            /\ UNCHANGED sleepLeft
    /\ UNCHANGED <<traceVars, zipVars, cbVars, collVars, docVars, batchVars, text, attempt, tmp, translator, translator_index,
                   translated, elapsed, poolVars, histVars, ghostVars>>

\* lines 64-65: the sleep is over and get_next_translator reads the cursor
PollWake(w) ==
    /\ wpc[w] = "poll"
    /\ sleepLeft[w] = 0
    /\ tmp' = [tmp EXCEPT ![w] = current_translator_index]
    /\ Goto(w, "gn_write")
    /\ UNCHANGED <<traceVars, zipVars, cbVars, collVars, docVars, batchVars, text, attempt, translator, translator_index,
                   translated, timeVars, poolVars, histVars, ghostVars>>

\* lines 68-69: current_time is read and the port is called
Invoke(w) ==
    /\ wpc[w] = "invoke"
    /\ Goto(w, "in_call")
    /\ elapsed' = [elapsed EXCEPT ![w] = 0]
    /\ port_calls' = DictSet(port_calls, text[w], Min(Calls(text[w]) + 1, MaxCounted))
    /\ nCalls' = [nCalls EXCEPT ![w] = @ + 1]
    /\ issued' = [issued EXCEPT ![translator[w]] = Issue(@)]
    /\ UNCHANGED <<traceVars, zipVars, cbVars, collVars, docVars, batchVars, text, attempt, tmp, translator, translator_index,
                   translated, sleepLeft, poolVars, port_answers, port_failed, nFails,
                   expected, used, last_failure>>

\* line 69 returns, and line 72 reads the counter of
\* self.request_counts[translator_index] += 1
PortOk(w) ==
    /\ wpc[w] = "in_call"
    /\ \E v \in PortAnswers(text[w]) :
          /\ translated' = [translated EXCEPT ![w] = v]
          /\ port_answers' = DictSet(port_answers, text[w], Answers(text[w]) \cup {v})
    /\ tmp' = [tmp EXCEPT ![w] = request_counts[Slot(w)]]
    /\ used' = [used EXCEPT ![translator[w]] = TRUE]
    /\ Goto(w, "inc_write")
    /\ UNCHANGED <<traceVars, zipVars, cbVars, collVars, docVars, batchVars, text, attempt, translator, translator_index,
                   timeVars, poolVars, port_calls, port_failed, nCalls, nFails,
                   issued, expected, last_failure>>

\* What follows a failed attempt (lines 81-91): a backoff of d milliseconds
\* and the next attempt, or the original text.
AfterFailure(w, backoffs) ==
    IF AttemptsRemain(attempt[w])
    THEN /\ \E d \in backoffs :
              /\ sleepLeft' = [sleepLeft EXCEPT ![w] = SleepTicks(d)]
              /\ backoff_ms' = [backoff_ms EXCEPT ![w] = d]
         /\ Goto(w, "backoff")
         /\ UNCHANGED translated
    ELSE /\ translated' = [translated EXCEPT ![w] = text[w]]
         /\ Goto(w, "returned")
         /\ UNCHANGED <<sleepLeft, backoff_ms>>

\* line 69 raises a rate-limit error ("429" or "rate" in the message): lines 78-83
PortRateLimited(w) ==
    /\ wpc[w] = "in_call"
    /\ port_mode = "faulty"
    /\ request_counts' = [request_counts EXCEPT ![Slot(w)] = CountAfterRateLimit(@)]
    /\ AfterFailure(w, BackoffRate)
    /\ elapsed' = [elapsed EXCEPT ![w] = 0]
    /\ port_failed' = TRUE
    /\ nFails' = [nFails EXCEPT ![w] = @ + 1]
    /\ expected' = [expected EXCEPT ![Slot(w)] = CountAfterRateLimit(@)]
    /\ last_failure' = [last_failure EXCEPT ![w] = "rate"]
    /\ failed_slot' = [failed_slot EXCEPT ![w] = translator[w]]
    /\ UNCHANGED <<selections, batch_log, zipVars, cbVars, collVars, docVars, batchVars, text, attempt, tmp, translator, translator_index,
                   current_translator_index, last_request_age, port_calls, port_answers, nCalls,
                   issued, used>>

\* A handler of other errors that records the time of the failed request.
PortErrorStamped(w) ==
    /\ wpc[w] = "in_call"
    /\ port_mode = "faulty"
    /\ AfterFailure(w, BackoffOther)
    /\ last_request_age' = [last_request_age EXCEPT ![Slot(w)] = elapsed[w]]
    /\ elapsed' = [elapsed EXCEPT ![w] = 0]
    /\ port_failed' = TRUE
    /\ nFails' = [nFails EXCEPT ![w] = @ + 1]
    /\ last_failure' = [last_failure EXCEPT ![w] = "other"]
    /\ failed_slot' = [failed_slot EXCEPT ![w] = translator[w]]
    /\ UNCHANGED <<selections, batch_log, zipVars, cbVars, collVars, docVars, batchVars, text, attempt, tmp, translator, translator_index,
                   current_translator_index, request_counts, port_calls, port_answers, nCalls, issued, expected, used>>

\* line 69 raises another error: lines 84-89
PortError(w) ==
    /\ wpc[w] = "in_call"
    /\ port_mode = "faulty"
    /\ AfterFailure(w, BackoffOther)
    /\ elapsed' = [elapsed EXCEPT ![w] = 0]
    /\ port_failed' = TRUE
    /\ nFails' = [nFails EXCEPT ![w] = @ + 1]
    /\ last_failure' = [last_failure EXCEPT ![w] = "other"]
    /\ failed_slot' = [failed_slot EXCEPT ![w] = translator[w]]
    /\ UNCHANGED <<selections, batch_log, zipVars, cbVars, collVars, docVars, batchVars, text, attempt, tmp, translator, translator_index,
                   poolVars, port_calls, port_answers, nCalls, issued, expected, used>>

\* lines 82-83 and 86-87: the backoff is over, `continue`; the next attempt's
\* get_next_translator reads the cursor (lines 59-60 and 35)
BackoffWake(w) ==
    /\ wpc[w] = "backoff"
    /\ sleepLeft[w] = 0
    /\ attempt' = [attempt EXCEPT ![w] = @ + 1]
    /\ tmp' = [tmp EXCEPT ![w] = current_translator_index]
    /\ Goto(w, "gn_write")
    /\ backoff_ms' = [backoff_ms EXCEPT ![w] = 0]
    /\ UNCHANGED <<selections, failed_slot, batch_log, zipVars, cbVars, collVars, docVars, batchVars, text, translator, translator_index,
                   translated, timeVars, poolVars, histVars, ghostVars>>

\* line 72, the write
IncWrite(w) ==
    /\ wpc[w] = "inc_write"
    /\ request_counts' = [request_counts EXCEPT ![Slot(w)] = tmp[w] + 1]
    /\ expected' = [expected EXCEPT ![Slot(w)] = @ + 1]
    /\ tmp' = [tmp EXCEPT ![w] = 0]
    /\ Goto(w, "set_last")
    /\ UNCHANGED <<traceVars, zipVars, cbVars, collVars, docVars, batchVars, text, attempt, translator, translator_index,
                   translated, timeVars, current_translator_index, last_request_age, histVars,
                   issued, used, last_failure>>

\* lines 73-75: last_request_times[translator_index] = current_time, the time
\* read before the call; return result.text
SetLast(w) ==
    /\ wpc[w] = "set_last"
    /\ last_request_age' = [last_request_age EXCEPT ![Slot(w)] = elapsed[w]]
    /\ elapsed' = [elapsed EXCEPT ![w] = 0]
    /\ Goto(w, "returned")
    /\ UNCHANGED <<traceVars, zipVars, cbVars, collVars, docVars, batchVars, text, attempt, tmp, translator, translator_index,
                   translated, sleepLeft, current_translator_index, request_counts, histVars, ghostVars>>

(* ----- translate_batch_sequential and translate_batch_threaded_safe ---- *)

IsTranslatable(t) == Strip(t) # <<>>

\* texts[i:i + n], i counted from 0
Slice(texts, i, n) == SubSeq(texts, i + 1, Min(i + n, Len(texts)))

\* A count of batches that is one too many when the last batch is full.
total_batches_floor(n) == n \div batch_size + 1

\* line 197: total_batches
total_batches(n) == (n - 1) \div batch_size + 1

\* The batch the dispatcher is at (line 200).
Batch == Slice(texts_to_translate, batch_idx, batch_size)

\* A cut that gives the whole batch to the first thread.
ChunkWhole(texts, t) == IF t = 1 THEN texts ELSE <<>>

\* The chunk of thread t (lines 129-130).
Chunk(texts, t) == Slice(texts, (t - 1) * thread_chunk, thread_chunk)

\* lines 129-133: the chunks the threads of a batch are started with, in the
\* order of the threads.
ThreadChunks(texts) ==
    [t \in 1..Cardinality({u \in Threads : Chunk(texts, u) # <<>>}) |-> Chunk(texts, t)]

\* A worker function that reports every text to progress_callback.
WorkerCallbacksSelf(w) == {w}

\* The threads from which a worker function invokes progress_callback:
\* lines 93-106 and 113-123 invoke no callback.
WorkerCallbacks(w) == {}

\* The locals of a worker that is not in translate_with_smart_retry.
Leave(w) ==
    /\ text' = [text EXCEPT ![w] = <<>>]
    /\ attempt' = [attempt EXCEPT ![w] = 0]
    /\ tmp' = [tmp EXCEPT ![w] = 0]
    /\ translator' = [translator EXCEPT ![w] = 0]
    /\ translator_index' = [translator_index EXCEPT ![w] = 0]
    /\ translated' = [translated EXCEPT ![w] = <<>>]
    /\ nCalls' = [nCalls EXCEPT ![w] = 0]
    /\ nFails' = [nFails EXCEPT ![w] = 0]
    /\ last_failure' = [last_failure EXCEPT ![w] = "none"]
    /\ failed_slot' = [failed_slot EXCEPT ![w] = NoSlot]

\* lines 99-102 and 118-120: the translation is stored and the loop goes on
\* to the worker's next text.  (The sleeps of 0.05 s and 0.03 s are shorter
\* than a tick.)
StoreNext(w) ==
    /\ wpc[w] = "returned"
    /\ pos[w] < Len(work[w])
    /\ wres' = [wres EXCEPT ![w] = DictSet(@, text[w], translated[w])]
    /\ pos' = [pos EXCEPT ![w] = @ + 1]
    /\ Enter(w, work[w][pos[w] + 1])
    /\ Goto(w, "gn_read")
    /\ progress_by' = progress_by \cup WorkerCallbacks(w)
    /\ UNCHANGED <<selections, backoff_ms, batch_log, zipVars, overall_by, overall_log, in_overall, collVars, docVars, work, result_queue, tmp, translator, translator_index,
                   translated, timeVars, poolVars, port_calls, port_answers, port_failed,
                   issued, expected, used>>

\* lines 99-106, then 213 and 216: the last text of a sequential batch
StoreLastSequential ==
    /\ wpc[Main] = "returned"
    /\ dpc = "sequential"
    /\ pos[Main] = Len(work[Main])
    /\ translated_texts' = DictUpdate(translated_texts,
                                      DictSet(wres[Main], text[Main], translated[Main]))
    /\ work' = [work EXCEPT ![Main] = <<>>]
    /\ pos' = [pos EXCEPT ![Main] = 0]
    /\ wres' = [wres EXCEPT ![Main] = EmptyDict]
    /\ Leave(Main)
    /\ Goto(Main, "idle")
    /\ dpc' = "pause"
    /\ sleepLeft' = [sleepLeft EXCEPT ![Main] = BatchPause]
    /\ progress_by' = progress_by \cup WorkerCallbacks(Main)
    /\ UNCHANGED <<selections, backoff_ms, batch_log, zipVars, overall_by, overall_log, in_overall, collVars, subs, texts_to_translate, batch_idx, result_queue, elapsed,
                   poolVars, port_calls, port_answers, port_failed, issued, expected, used>>

\* lines 118-123: the last text of a thread; result_queue.put(batch_results)
StoreLastThread(w) ==
    /\ w \in Threads
    /\ wpc[w] = "returned"
    /\ pos[w] = Len(work[w])
    /\ result_queue' = Append(result_queue, DictSet(wres[w], text[w], translated[w]))
    /\ work' = [work EXCEPT ![w] = <<>>]
    /\ pos' = [pos EXCEPT ![w] = 0]
    /\ wres' = [wres EXCEPT ![w] = EmptyDict]
    /\ Leave(w)
    /\ Goto(w, "idle")
    /\ progress_by' = progress_by \cup WorkerCallbacks(w)
    /\ UNCHANGED <<selections, backoff_ms, batch_log, zipVars, overall_by, overall_log, in_overall, collVars, docVars, timeVars, poolVars, port_calls, port_answers, port_failed,
                   issued, expected, used>>

(* ------------------ translate_single_file_ultra_fast ------------------- *)

Content == file_info_list[fidx].content
Filename == file_info_list[fidx].name

\* An extraction without the test of line 181.
ExtractAll(entries) == [k \in 1..Len(entries) |-> entries[k].text]

\* An extraction that skips the empty texts only.
ExtractNonEmpty(entries) ==
    LET NonEmpty(t) == t # <<>>
    IN  SelectSeq([k \in 1..Len(entries) |-> entries[k].text], NonEmpty)

\* lines 177-183
Extract(entries) == SelectSeq([k \in 1..Len(entries) |-> entries[k].text], IsTranslatable)

\* A substitution by index: only the last entry holding a text gets its
\* translation (the index text_to_sub_mapping keeps).
ApplyLastOnly(entries, d) ==
    [k \in 1..Len(entries) |->
        IF /\ IsTranslatable(entries[k].text)
           /\ entries[k].text \in DOMAIN d
           /\ \A j \in (k + 1)..Len(entries) : entries[j].text # entries[k].text
        THEN [entries[k] EXCEPT !.text = d[entries[k].text]]
        ELSE entries[k]]

\* A substitution that keeps only the entries it has a translation for.
ApplyDropUntranslated(entries, d) ==
    LET Translated(e) == IsTranslatable(e.text) /\ e.text \in DOMAIN d
        kept == SelectSeq(entries, Translated)
    IN  [k \in 1..Len(kept) |-> [kept[k] EXCEPT !.text = d[kept[k].text]]]

\* lines 219-221
Apply(entries, d) ==
    [k \in 1..Len(entries) |->
        IF IsTranslatable(entries[k].text) /\ entries[k].text \in DOMAIN d
        THEN [entries[k] EXCEPT !.text = d[entries[k].text]]
        ELSE entries[k]]

\* A pipeline that reports a file as failed when a translation fell back.
SuccessUnlessFailed(name, entries) ==
    IF port_failed
    THEN [filename |-> name, content |-> NoContent, status |-> "error",
          subtitle_count |-> -1, error |-> "translation failed"]
    ELSE [filename |-> name, content |-> srt_to_string(entries), status |-> "success",
          subtitle_count |-> Len(entries), error |-> ""]

\* lines 186-191 and 228-233
Success(name, entries) ==
    [filename |-> name, content |-> srt_to_string(entries), status |-> "success",
     subtitle_count |-> Len(entries), error |-> ""]

\* lines 239-244
Failure(name, message) ==
    [filename |-> name, content |-> NoContent, status |-> "error",
     subtitle_count |-> -1, error |-> message]

\* A driver that keeps only the results of the files that succeeded.
AppendUnlessError(rs, r) == IF r.status = "error" THEN rs ELSE Append(rs, r)

\* line 260
AppendResult(rs, r) == Append(rs, r)

\* The file's result goes back to translate_multiple_files_sequential:
\* lines 260 and 263.  The file's SmartTranslator is dropped; `entries` are
\* the file's entries as translate_single_file_ultra_fast leaves them.
Return(result, entries) ==
    /\ results' = AppendResult(results, result)
    /\ cpc' = "pause"
    /\ sleepLeft' = [sleepLeft EXCEPT ![Main] = FilePause]
    /\ dpc' = "idle"
    /\ subs' = entries
    /\ texts_to_translate' = <<>>
    /\ batch_idx' = 0
    /\ translated_texts' = EmptyDict
    /\ current_translator_index' = 0
    /\ request_counts' = FreshCounts
    /\ last_request_age' = FreshAges
    /\ issued' = NoneIssued
    /\ expected' = FreshCounts
    /\ used' = NoneUsed
    /\ progress_by' = progress_by \cup {Main}
    /\ selections' = <<>>
    /\ UNCHANGED <<failed_slot, backoff_ms, batch_log, zipVars, overall_by, overall_log, in_overall, file_info_list, port_mode, thread_chunk, cancel_requested, fidx, batchVars, retryVars, elapsed, histVars, last_failure>>

\* A pipeline without the try/except: the parse error ends the whole run.
ParseErrorAborts ==
    /\ dpc = "parse"
    /\ ~Content.ok
    /\ cpc' = "done"
    /\ dpc' = "idle"
    /\ UNCHANGED <<traceVars, zipVars, cbVars, file_info_list, port_mode, thread_chunk, cancel_requested, fidx, results, subs, texts_to_translate, batch_idx,
                   translated_texts, batchVars, retryVars, timeVars, poolVars, histVars, ghostVars>>

\* line 170 raises: lines 235-244
ParseError ==
    /\ dpc = "parse"
    /\ ~Content.ok
    /\ Return(Failure(Filename, Content.error), <<>>)

\* lines 170-191: nothing to translate
ParseNoText ==
    /\ dpc = "parse"
    /\ Content.ok
    /\ Extract(Content.entries) = <<>>
    /\ Return(Success(Filename, Content.entries), Content.entries)

\* lines 170-197
ParseOk ==
    /\ dpc = "parse"
    /\ Content.ok
    /\ Extract(Content.entries) # <<>>
    /\ subs' = Content.entries
    /\ texts_to_translate' = Extract(Content.entries)
    /\ batch_idx' = 0
    /\ translated_texts' = EmptyDict
    /\ dpc' = "batch"
    /\ progress_by' = progress_by \cup {Main}
    /\ UNCHANGED <<traceVars, zipVars, overall_by, overall_log, in_overall, collVars, batchVars, retryVars, timeVars, poolVars, histVars, ghostVars>>

\* lines 199-211, a batch of more than threaded_limit texts:
\* translate_batch_sequential starts on its first text
BatchSequential ==
    /\ dpc = "batch"
    /\ batch_idx < Len(texts_to_translate)
    /\ Len(Batch) > threaded_limit
    /\ work' = [work EXCEPT ![Main] = Batch]
    /\ pos' = [pos EXCEPT ![Main] = 1]
    /\ wres' = [wres EXCEPT ![Main] = EmptyDict]
    /\ Enter(Main, Batch[1])
    /\ Goto(Main, "gn_read")
    /\ dpc' = "sequential"
    /\ progress_by' = progress_by \cup {Main}
    /\ batch_log' = Append(batch_log, [number |-> batch_idx \div batch_size + 1,
                                        total |-> total_batches(Len(texts_to_translate)),
                                        size |-> Len(Batch), batch |-> Batch,
                                        chunks |-> <<>>])
    /\ UNCHANGED <<selections, backoff_ms, zipVars, overall_by, overall_log, in_overall, collVars, subs, texts_to_translate, batch_idx, translated_texts, result_queue,
                   tmp, translator, translator_index, translated, timeVars, poolVars,
                   port_calls, port_answers, port_failed, issued, expected, used>>

\* lines 199-208 and 110-133, a batch of at most threaded_limit texts: one
\* thread per chunk is started
BatchThreaded ==
    /\ dpc = "batch"
    /\ batch_idx < Len(texts_to_translate)
    /\ Len(Batch) <= threaded_limit
    /\ LET started == {t \in Threads : Chunk(Batch, t) # <<>>}
       IN  /\ work' = [w \in Workers |-> IF w \in started THEN Chunk(Batch, w) ELSE work[w]]
           /\ pos' = [w \in Workers |-> IF w \in started THEN 1 ELSE pos[w]]
           /\ wres' = [w \in Workers |-> IF w \in started THEN EmptyDict ELSE wres[w]]
           /\ text' = [w \in Workers |-> IF w \in started THEN Chunk(Batch, w)[1] ELSE text[w]]
           /\ wpc' = [w \in Workers |-> IF w \in started THEN "gn_read" ELSE wpc[w]]
    /\ result_queue' = <<>>
    /\ dpc' = "join"
    /\ progress_by' = progress_by \cup {Main}
    /\ batch_log' = Append(batch_log, [number |-> batch_idx \div batch_size + 1,
                                        total |-> total_batches(Len(texts_to_translate)),
                                        size |-> Len(Batch), batch |-> Batch,
                                        chunks |-> ThreadChunks(Batch)])
    /\ UNCHANGED <<selections, failed_slot, backoff_ms, zipVars, overall_by, overall_log, in_overall, collVars, subs, texts_to_translate, batch_idx, translated_texts,
                   attempt, tmp, translator, translator_index, translated, timeVars, poolVars,
                   histVars, ghostVars>>

\* A batch function that merges the queue without joining its threads.
BatchJoinNoWait ==
    /\ dpc = "join"
    /\ translated_texts' = DictUpdate(translated_texts, DrainQueue(EmptyDict, result_queue))
    /\ result_queue' = <<>>
    /\ dpc' = "pause"
    /\ sleepLeft' = [sleepLeft EXCEPT ![Main] = BatchPause]
    /\ UNCHANGED <<traceVars, zipVars, cbVars, collVars, subs, texts_to_translate, batch_idx, work, pos, wres, retryVars,
                   elapsed, poolVars, histVars, ghostVars>>

\* lines 135-144, then 213 and 216: every thread has ended
BatchJoin ==
    /\ dpc = "join"
    /\ \A t \in Threads : wpc[t] = "idle"
    /\ translated_texts' = DictUpdate(translated_texts, DrainQueue(EmptyDict, result_queue))
    /\ result_queue' = <<>>
    /\ dpc' = "pause"
    /\ sleepLeft' = [sleepLeft EXCEPT ![Main] = BatchPause]
    /\ UNCHANGED <<traceVars, zipVars, cbVars, collVars, subs, texts_to_translate, batch_idx, work, pos, wres, retryVars,
                   elapsed, poolVars, histVars, ghostVars>>

\* line 216 is over: the next batch
BatchPauseWake ==
    /\ dpc = "pause"
    /\ sleepLeft[Main] = 0
    /\ batch_idx' = batch_idx + batch_size
    /\ dpc' = "batch"
    /\ UNCHANGED <<traceVars, zipVars, cbVars, collVars, subs, texts_to_translate, translated_texts, batchVars, retryVars,
                   timeVars, poolVars, histVars, ghostVars>>

\* lines 218-233: every batch is done
Finish ==
    /\ dpc = "batch"
    /\ batch_idx >= Len(texts_to_translate)
    /\ Return(Success(Filename, Apply(subs, translated_texts)), Apply(subs, translated_texts))

(* ---------------- translate_multiple_files_sequential ------------------ *)

\* A progress value that does not count the files.
overall_value_first(k, n) == [num |-> 1, den |-> n]

\* line 253, (i + 1) / total_files for the k-th file, k = i + 1, as a fraction
overall_value(k, n) == [num |-> k, den |-> n]

\* lines 251-253: the next file; overall_progress_callback is entered
OverallProgress ==
    /\ cpc = "loop"
    /\ fidx <= Len(file_info_list)
    /\ cpc' = "overall"
    /\ overall_by' = overall_by \cup {Main}
    /\ in_overall' = in_overall \cup {Main}
    /\ overall_log' = Append(overall_log, overall_value(fidx, Len(file_info_list)))
    /\ UNCHANGED <<traceVars, zipVars, file_info_list, port_mode, thread_chunk, cancel_requested, fidx, results, docVars, batchVars, retryVars,
                   timeVars, poolVars, histVars, ghostVars, progress_by>>

\* lines 253-259 and 167: overall_progress_callback returns and
\* translate_single_file_ultra_fast is called; its SmartTranslator is constructed
NextFile ==
    /\ cpc = "overall"
    /\ in_overall' = in_overall \ {Main}
    /\ cpc' = "file"
    /\ dpc' = "parse"
    /\ current_translator_index' = 0
    /\ request_counts' = FreshCounts
    /\ last_request_age' = FreshAges
    /\ port_calls' = EmptyDict
    /\ port_answers' = EmptyDict
    /\ port_failed' = FALSE
    /\ issued' = NoneIssued
    /\ expected' = FreshCounts
    /\ used' = NoneUsed
    /\ subs' = <<>>
    /\ selections' = <<>>
    /\ batch_log' = <<>>
    /\ UNCHANGED <<failed_slot, backoff_ms, zipVars, overall_by, overall_log, progress_by, file_info_list, port_mode, thread_chunk, cancel_requested, fidx, results, texts_to_translate, batch_idx,
                   translated_texts, batchVars, retryVars, timeVars, nCalls, nFails,
                   last_failure>>

\* line 263 is over
FilePauseWake ==
    /\ cpc = "pause"
    /\ sleepLeft[Main] = 0
    /\ fidx' = fidx + 1
    /\ cpc' = "loop"
    /\ UNCHANGED <<traceVars, zipVars, cbVars, file_info_list, port_mode, thread_chunk, cancel_requested, results, docVars, batchVars, retryVars, timeVars, poolVars,
                   histVars, ghostVars>>

\* line 265
ReturnResults ==
    /\ cpc = "loop"
    /\ fidx > Len(file_info_list)
    /\ cpc' = "done"
    /\ UNCHANGED <<traceVars, zipVars, cbVars, file_info_list, port_mode, thread_chunk, cancel_requested, fidx, results, docVars, batchVars, retryVars, timeVars,
                   poolVars, histVars, ghostVars>>

(* ---------------------------- create_zip_file -------------------------- *)

\* The last index of character c in p, 0 if there is none.
LastIndexOf(p, c) == Max(0, CHOOSE i \in 0..Len(p) :
                               /\ i > 0 => p[i] = c
                               /\ \A j \in (i + 1)..Len(p) : p[j] # c)

\* os.path.splitext(p)[0]: p up to the last dot of its last component,
\* unless only dots precede that dot in the component.
splitext(p) ==
    LET sep == LastIndexOf(p, "/")
        dot == LastIndexOf(p, ".")
    IN  IF dot > sep /\ \E i \in (sep + 1)..(dot - 1) : p[i] # "."
        THEN SubSeq(p, 1, dot - 1)
        ELSE p

\* "_vietnamese.srt"
Suffix == <<"_", "v", "i", "e", "t", "n", "a", "m", "e", "s", "e", ".", "s", "r", "t">>

\* lines 275-277
NewFilename(original_name) == splitext(original_name) \o Suffix

\* An archive that holds an entry for every result.
ZipEntryOfAny(file_info) ==
    <<[name |-> NewFilename(file_info.filename), content |-> file_info.content]>>

\* lines 273-280: the entries one result adds to the archive
ZipEntryOf(file_info) ==
    IF file_info.status = "success"
    THEN <<[name |-> NewFilename(file_info.filename), content |-> file_info.content]>>
    ELSE <<>>

RECURSIVE create_zip_file(_)
\* lines 267-283: the entries of the archive, in the order they are written
create_zip_file(files) ==
    IF files = <<>> THEN <<>>
    ELSE ZipEntryOf(Head(files)) \o create_zip_file(Tail(files))

\* line 512
IsSuccess(f) == f.status = "success"
success_files == SelectSeq(results, IsSuccess)

\* The archive is built, from the results of the run or (lines 511-518) from
\* the successful ones when there are some.
CreateZip ==
    /\ cpc = "done"
    /\ \E files \in {results} \cup (IF success_files # <<>> THEN {success_files} ELSE {}) :
          /\ translated_files' = files
          /\ zip_file' = create_zip_file(files)
    /\ cpc' = "zipped"
    /\ UNCHANGED <<traceVars, file_info_list, port_mode, thread_chunk, cancel_requested, fidx, results, docVars, batchVars,
                   retryVars, timeVars, poolVars, histVars, ghostVars, cbVars>>

(* ------------------------------ the caller ----------------------------- *)

\* The caller wants the run to stop, while the engine pauses between two
\* files (line 263) and a file is left.  Neither
\* translate_multiple_files_sequential nor translate_single_file_ultra_fast
\* has a parameter or reads a flag through which it could learn of this.
Cancel ==
    /\ ~cancel_requested
    /\ cpc = "pause"
    /\ fidx < Len(file_info_list)
    /\ cancel_requested' = TRUE
    /\ UNCHANGED <<traceVars, zipVars, file_info_list, port_mode, thread_chunk, fidx, results, cpc, docVars, batchVars, retryVars,
                   timeVars, poolVars, histVars, ghostVars, cbVars>>

(* -------------------------------- time --------------------------------- *)

InCall(w) == wpc[w] \in {"in_call", "inc_write", "set_last"}

\* The steps that read or set a time: the age check of should_wait, the
\* time.time() of line 68, the write of last_request_times, the end of a sleep.
TimeSensitive(w) == wpc[w] \in {"sw_age", "invoke", "set_last"} \/ sleepLeft[w] > 0

\* One tick passes: every slot's last request is one tick older, every
\* sleeper has one tick less to sleep.  A tick commutes with every step that
\* reads and sets no time, so time passes right before the steps that do.
Tick ==
    /\ \E w \in Workers : TimeSensitive(w)
    /\ last_request_age' = [s \in Slots |-> Min(last_request_age[s] + 1, Expired)]
    /\ elapsed' = [w \in Workers |-> IF InCall(w) THEN Min(elapsed[w] + 1, Expired) ELSE elapsed[w]]
    /\ sleepLeft' = [w \in Workers |-> Max(sleepLeft[w] - 1, 0)]
    /\ issued' = [s \in Slots |-> Older(issued[s])]
    /\ <<last_request_age, elapsed, sleepLeft, issued>>' #
           <<last_request_age, elapsed, sleepLeft, issued>>
    /\ UNCHANGED <<traceVars, zipVars, cbVars, collVars, docVars, batchVars, retryVars, current_translator_index,
                   request_counts, histVars, expected, used, last_failure>>

(* ----------------------------- specification --------------------------- *)

RetryStep(w) ==
    \/ GetNextRead(w) \/ GetNextWrite(w) \/ GetNextObj(w) \/ GetNextIdx(w)
    \/ ShouldWaitAge(w) \/ ShouldWaitCount(w) \/ PollWake(w)
    \/ Invoke(w) \/ PortOk(w) \/ PortRateLimited(w) \/ PortError(w) \/ BackoffWake(w)
    \/ IncWrite(w) \/ SetLast(w)

WorkerStep(w) == RetryStep(w) \/ StoreNext(w) \/ StoreLastThread(w)

MainStep ==
    \/ OverallProgress \/ NextFile \/ FilePauseWake \/ ReturnResults \/ CreateZip
    \/ ParseError \/ ParseNoText \/ ParseOk
    \/ BatchSequential \/ BatchThreaded \/ BatchJoin \/ BatchPauseWake \/ Finish
    \/ StoreLastSequential

Next == MainStep \/ (\E w \in Workers : WorkerStep(w)) \/ Tick \/ Cancel

Spec == Init /\ [][Next]_vars

\* The same program on documents whose batch runs in two threads, with a
\* port that never fails.
InitThreads == InitWith(ThreadInputs, {"reliable"}) \/ InitWith(LiveInputs, {"faulty"})
SpecThreads == InitThreads /\ [][Next]_vars

\* The clock advances, the interpreter schedules every thread, and every port
\* call returns or raises (PortOk, PortRateLimited and PortError are steps of
\* the calling worker).
Fairness ==
    /\ WF_vars(Tick)
    /\ WF_vars(MainStep)
    /\ \A w \in Workers : WF_vars(WorkerStep(w))

InitLive == InitWith(LiveInputs, {"faulty"})
LiveSpec == InitLive /\ [][Next]_vars /\ Fairness

\* The same program on documents that exercise the subtitle format.
InitFormat == InitWith(FormatInputs, {"reliable"}) \/ InitWith(LiveInputs, {"faulty"})
SpecFormat == InitFormat /\ [][Next]_vars

(* -------------------------------- claims ------------------------------- *)

\* The file at fidx has its result, results[fidx], and subs are its entries
\* as the pipeline left them.
Returned == cpc = "pause"
Entries(k) == file_info_list[k].content.entries
Parses(k) == file_info_list[k].content.ok

\* C1: when the port never fails, every distinct non-empty text of the
\* document has been sent to the port exactly once, however many entries
\* hold it.
C1_OneCallPerDistinctText ==
    (Returned /\ Parses(fidx) /\ ~port_failed) =>
        \A k \in 1..Len(Entries(fidx)) :
            IsTranslatable(Entries(fidx)[k].text) => Calls(Entries(fidx)[k].text) = 1

\* C2: after a successful return, two entries whose original texts were equal
\* hold the same output text (the entries the result's content serializes),
\* whatever the port did.
C2_EqualTextsEqualOutputs ==
    (Returned /\ results[fidx].status = "success") =>
        /\ results[fidx].content = srt_to_string(subs)
        /\ Len(subs) = Len(Entries(fidx))
        /\ \A i, j \in 1..Len(subs) :
              Entries(fidx)[i].text = Entries(fidx)[j].text => subs[i].text = subs[j].text

\* C2's case: two entries with the same text, for which the port gave two
\* different answers, hold a translation.
C2_Witness ==
    /\ Returned
    /\ results[fidx].status = "success"
    /\ \E i, j \in 1..Len(subs) :
          /\ i # j
          /\ Entries(fidx)[i].text = Entries(fidx)[j].text
          /\ Cardinality(Answers(Entries(fidx)[i].text)) = 2
          /\ subs[i].text \in PortAnswers(Entries(fidx)[i].text)

\* C3: a translate_with_smart_retry call in which every port call failed
\* returns after exactly max_retries port calls, with the original text.
C3_FallbackAfterMaxRetries ==
    \A w \in Workers :
        /\ nCalls[w] <= max_retries
        /\ (wpc[w] = "returned" /\ nFails[w] = nCalls[w]) =>
              (nCalls[w] = max_retries /\ translated[w] = text[w])

\* C3's case: the first call of a file has returned after failures only, one
\* of them rate-limited (a slot never used is at the limit) and the last one
\* not.
C3_Witness ==
    \E w \in Workers :
        /\ wpc[w] = "returned"
        /\ pos[w] = 1
        /\ nFails[w] = nCalls[w]
        /\ nFails[w] > 0
        /\ last_failure[w] = "other"
        /\ \E s \in Slots : ~used[s] /\ request_counts[s] = max_requests_per_minute

\* C4: a document that parses gets a success result, whatever the port did.
C4_ParsedAlwaysSuccess ==
    \A k \in 1..Len(results) : Parses(k) => results[k].status = "success"

\* C4's case: a document with texts to translate, every port call failed, and
\* the result is a success holding the original texts.
C4_Witness ==
    /\ Returned
    /\ Parses(fidx)
    /\ Extract(Entries(fidx)) # <<>>
    /\ port_failed
    /\ port_answers = EmptyDict
    /\ results[fidx].status = "success"
    /\ subs = Entries(fidx)

\* C5: the returned list has one result per submitted file, the k-th for the
\* k-th file.
C5_OneResultPerFileInOrder ==
    /\ Len(results) <= Len(file_info_list)
    /\ cpc = "done" =>
          /\ Len(results) = Len(file_info_list)
          /\ \A k \in 1..Len(results) : results[k].filename = file_info_list[k].name

\* C5's case: a run of three files has ended with successes and failures.
C5_Witness ==
    /\ cpc = "done"
    /\ Len(results) = 3
    /\ \E k \in 1..3 : results[k].status = "success"
    /\ \E k \in 1..3 : results[k].status = "error"

\* C6: a file whose parsing fails gets an error result carrying the parser's
\* message, and the files before and after it are processed and get their
\* own results.
C6_ParseFailureIsolated ==
    /\ \A k \in 1..Len(results) :
          ~Parses(k) => /\ results[k].status = "error"
                        /\ results[k].error = file_info_list[k].content.error
                        /\ results[k].content = NoContent
    /\ cpc = "done" =>
          \A k \in 1..Len(file_info_list) :
              /\ k <= Len(results)
              /\ Parses(k) => results[k].subtitle_count = Len(Entries(k))

\* C6's case: the second of three files is malformed, and the run has ended
\* with the first and the third translated.
C6_Witness ==
    /\ cpc = "done"
    /\ Len(file_info_list) = 3
    /\ ~Parses(2)
    /\ results[2].status = "error"
    /\ results[1].status = "success" /\ Extract(Entries(1)) # <<>>
    /\ results[3].status = "success" /\ Extract(Entries(3)) # <<>>

\* C7: a collection run always completes, under LiveSpec's fairness: every
\* polling loop, retry loop, batch and file ends and the results are returned.
C7_RunCompletes == <>(cpc = "done")

\* C7's case: every slot is saturated within its window, and a worker is
\* held back by it.
C7_Witness ==
    /\ \A s \in Slots : AtLimit(request_counts[s]) /\ last_request_age[s] <= Window
    /\ \E w \in Workers : wpc[w] \in {"poll", "backoff"}

\* C8: at most max_requests_per_minute port calls are made through a slot
\* within any window of Window ticks.
C8_AtMostMaxPerWindow ==
    \A s \in Slots : Len(issued[s]) <= max_requests_per_minute

\* C9: no update of a slot's counter is lost: the counter is what atomic
\* updates (reset, increment, forcing to the limit) would have made it.
C9_NoLostUpdate ==
    \A s \in Slots : request_counts[s] = expected[s]

\* C10: once a call through a slot has failed as rate-limited, the slot's
\* counter is at the limit and should_wait holds the slot back, also when
\* no call through the slot has succeeded yet.
C10_RateLimitedSlotIneligible ==
    \A w \in Workers :
        (wpc[w] = "backoff" /\ last_failure[w] = "rate" /\ ~used[Slot(w)]) =>
            /\ request_counts[Slot(w)] = max_requests_per_minute
            /\ should_wait(request_counts[Slot(w)], last_request_age[Slot(w)])

\* s ends with the characters of suffix.
EndsWith(s, suffix) ==
    /\ Len(s) >= Len(suffix)
    /\ SubSeq(s, Len(s) - Len(suffix) + 1, Len(s)) = suffix

\* C11: the serialization of N >= 1 entries ends with the last entry's text
\* followed by two newline characters (the text's line end and one blank
\* separator line).
C11_BlankLineAfterLastEntry ==
    (Returned /\ results[fidx].status = "success" /\ Len(subs) >= 1) =>
        EndsWith(results[fidx].content, subs[Len(subs)].text \o <<"\n", "\n">>)

\* The start and end of an entry, truncated to the millisecond.
Millis(us) == 1000 * (us \div 1000)

\* A text the grammar can hold: no line of it is blank.
IsValidText(t) == t = <<>> \/ \A k \in 1..Len(SplitLines(t)) : ~IsBlankLine(SplitLines(t)[k])

\* The serialized document of the file at fidx, parsed.
Reparsed == Parse(results[fidx].content)

\* C12: the serialization numbers the N entries 1, 2, ..., N in entry order,
\* whatever the index values of the input: parsed again, entry k of the
\* output has index k.
C12_RenumberedFromOne ==
    (Returned /\ results[fidx].status = "success"
        /\ \A k \in 1..Len(subs) : IsValidText(subs[k].text)) =>
        /\ Reparsed.ok
        /\ Len(Reparsed.entries) = Len(subs)
        /\ \A k \in 1..Len(subs) : Reparsed.entries[k].index = k

\* C12's case: a document whose indices were 5, 9, 9 has been serialized.
C12_Witness ==
    /\ Returned
    /\ results[fidx].status = "success"
    /\ Len(subs) = 3
    /\ subs[1].index = 5 /\ subs[2].index = 9 /\ subs[3].index = 9
    /\ Reparsed.ok
    /\ [k \in 1..3 |-> Reparsed.entries[k].index] = <<1, 2, 3>>

\* C13: a serialized document whose texts the grammar can hold (empty and
\* multi-line texts included) parses to a document with the same number of
\* entries, the same texts and the same timings to the millisecond.
C13_ParseOfSerialize ==
    (Returned /\ results[fidx].status = "success"
        /\ \A k \in 1..Len(subs) : IsValidText(subs[k].text)) =>
        /\ Reparsed.ok
        /\ Len(Reparsed.entries) = Len(subs)
        /\ \A k \in 1..Len(subs) :
              /\ Reparsed.entries[k].text = subs[k].text
              /\ Reparsed.entries[k].start = Millis(subs[k].start)
              /\ Reparsed.entries[k].end = Millis(subs[k].end)

\* C13's case: a serialized document with an entry without text and an entry
\* of two lines.
C13_Witness ==
    /\ Returned
    /\ results[fidx].status = "success"
    /\ \E k \in 1..Len(subs) : subs[k].text = Empty
    /\ \E k \in 1..Len(subs) : Len(SplitLines(subs[k].text)) = 2
    /\ \A k \in 1..Len(subs) : IsValidText(subs[k].text)
    /\ Reparsed.ok

\* C14: the output document has the entries of the parsed input, in the same
\* order and with the same timings; only texts differ.
C14_OnlyTextsChange ==
    (Returned /\ results[fidx].status = "success") =>
        /\ results[fidx].subtitle_count = Len(Entries(fidx))
        /\ Len(subs) = Len(Entries(fidx))
        /\ \A k \in 1..Len(subs) :
              subs[k] = [Entries(fidx)[k] EXCEPT !.text = subs[k].text]
        /\ (\A k \in 1..Len(subs) : IsValidText(subs[k].text)) =>
              /\ Len(Reparsed.entries) = Len(Entries(fidx))
              /\ \A k \in 1..Len(Reparsed.entries) :
                    /\ Reparsed.entries[k].start = Entries(fidx)[k].start
                    /\ Reparsed.entries[k].end = Entries(fidx)[k].end

\* C14's case: a document of several entries, some translated and some left
\* as they were, has been returned.
C14_Witness ==
    /\ Returned
    /\ results[fidx].status = "success"
    /\ \E k \in 1..Len(subs) : subs[k].text # Entries(fidx)[k].text
    /\ \E k \in 1..Len(subs) : ~IsTranslatable(Entries(fidx)[k].text)

\* A text that is empty or holds whitespace only.
IsBlankText(t) == \A i \in 1..Len(t) : t[i] \in Whitespace

\* C15: a text that is empty or whitespace-only is never passed to the port,
\* and an entry holding one has the same text in the output document.
C15_BlankTextsUntouched ==
    /\ \A t \in DOMAIN port_calls : ~IsBlankText(t)
    /\ \A w \in Workers : wpc[w] # "idle" => ~IsBlankText(text[w])
    /\ (Returned /\ results[fidx].status = "success") =>
          \A k \in 1..Len(Entries(fidx)) :
              IsBlankText(Entries(fidx)[k].text) => subs[k].text = Entries(fidx)[k].text

\* C15's case: a document with an empty text, a whitespace-only text and
\* translated texts has been returned.
C15_Witness ==
    /\ Returned
    /\ results[fidx].status = "success"
    /\ \E k \in 1..Len(subs) : Entries(fidx)[k].text = Empty /\ subs[k].text = Empty
    /\ \E k \in 1..Len(subs) : Entries(fidx)[k].text = Blank /\ subs[k].text = Blank
    /\ \E k \in 1..Len(subs) : subs[k].text \in PortAnswers(Entries(fidx)[k].text)

\* The file at fidx parses and has nothing to translate.
NothingToTranslate ==
    /\ cpc \in {"file", "pause"}
    /\ Parses(fidx)
    /\ \A k \in 1..Len(Entries(fidx)) : IsBlankText(Entries(fidx)[k].text)

\* C16: a parsed document without translatable text is returned as a success
\* holding the serialization of the unmodified document; while it is
\* processed no port call is made and no slot is taken from the pool.
C16_NothingToTranslate ==
    NothingToTranslate =>
        /\ \A w \in Workers : wpc[w] = "idle"
        /\ port_calls = EmptyDict
        /\ issued = NoneIssued
        /\ current_translator_index = 0
        /\ request_counts = FreshCounts
        /\ Returned =>
              /\ results[fidx].status = "success"
              /\ results[fidx].content = srt_to_string(Entries(fidx))
              /\ results[fidx].subtitle_count = Len(Entries(fidx))

\* C16's case: a document whose only entry is whitespace has been returned.
C16_Witness ==
    /\ NothingToTranslate
    /\ Returned
    /\ Len(Entries(fidx)) >= 1
    /\ results[fidx].status = "success"

\* Both batch functions on the same texts, behind a port that returns.
InitModes == InitWith(ModeInputs, {"reliable"}) \/ InitWith(LiveInputs, {"faulty"})
SpecModes == InitModes /\ [][Next]_vars

Range(s) == {s[k] : k \in 1..Len(s)}

\* The port has behaved as a function of the text so far: it never gave two
\* answers for one text, and it either never failed or never answered.
DeterministicPort ==
    /\ \A t \in DOMAIN port_answers : Cardinality(port_answers[t]) <= 1
    /\ ~port_failed \/ DOMAIN port_answers = {}

\* What translate_with_smart_retry returns for a text behind such a port.
Outcome(t) == IF Answers(t) = {} THEN t ELSE CHOOSE v \in Answers(t) : TRUE

\* Every thread of translate_batch_threaded_safe has ended (line 137).
Joined == dpc = "join" /\ \A t \in Threads : wpc[t] = "idle"

\* The mapping translate_batch_threaded_safe returns (lines 139-144).
ThreadedResults == DrainQueue(EmptyDict, result_queue)

\* C17: behind a port that behaves as a function of the text, the mapping of
\* translate_batch_threaded_safe and the mapping of translate_batch_sequential
\* both take each text of the batch to the port's outcome for it, whatever
\* the interleaving of the threads; so the two agree on every text.
C17_ModesAgree ==
    DeterministicPort =>
        /\ Joined =>
              /\ DOMAIN ThreadedResults = Range(Batch)
              /\ \A t \in Range(Batch) : ThreadedResults[t] = Outcome(t)
              /\ \A t \in Range(Batch) \cap DOMAIN translated_texts :
                    ThreadedResults[t] = translated_texts[t]
        /\ (dpc = "pause" /\ batch_idx = 0) =>
              /\ DOMAIN translated_texts = Range(Batch)
              /\ \A t \in Range(Batch) : translated_texts[t] = Outcome(t)

\* C17's case: two threads have translated the two texts a sequential batch
\* translated before them, and the port answered each text one way.
C17_Witness ==
    /\ DeterministicPort
    /\ Joined
    /\ Len(result_queue) = 2
    /\ batch_idx > 0
    /\ Len(SubSeq(texts_to_translate, 1, batch_idx)) > threaded_limit
    /\ Cardinality(Range(Batch)) = 2
    /\ Range(Batch) = DOMAIN translated_texts
    /\ \A t \in Range(Batch) : translated_texts[t] \in PortAnswers(t)

\* A batch function is running on the current batch.
InBatch == dpc \in {"sequential", "join"}

\* C18: within one document every key of the mapping is written once: the
\* batch being translated holds no key an earlier batch resolved, a worker
\* does not translate a text its own mapping already holds, and the
\* mappings of two threads share no key.
C18_KeysWrittenOnce ==
    /\ InBatch => Range(Batch) \cap DOMAIN translated_texts = {}
    /\ \A w \in Workers : wpc[w] # "idle" => text[w] \notin DOMAIN wres[w]
    /\ \A i, j \in 1..Len(result_queue) :
          i # j => DOMAIN result_queue[i] \cap DOMAIN result_queue[j] = {}
    /\ \A v, w \in Threads : v # w => Range(work[v]) \cap Range(work[w]) = {}

\* The texts of the entries of file k.
TextsOf(k) == {Entries(k)[i].text : i \in 1..Len(Entries(k))}

\* C19: a worker is in translate_with_smart_retry only while the file at
\* fidx is being translated, on a text of the current batch of that file,
\* and the results of all files before it have been produced; between two
\* files, and after the last one, no worker is active.
C19_OneDocumentAtATime ==
    \A w \in Workers :
        wpc[w] # "idle" =>
            /\ cpc = "file"
            /\ InBatch
            /\ Len(results) = fidx - 1
            /\ text[w] \in Range(Batch)
            /\ Range(Batch) \subseteq TextsOf(fidx)

\* C19's case: a thread of the second file is in a port call, and the first
\* file's result is a translated document.
C19_Witness ==
    /\ fidx = 2
    /\ \E w \in Threads : InCall(w)
    /\ Len(results) = 1
    /\ results[1].status = "success"
    /\ port_calls # EmptyDict
    /\ TextsOf(1) # {} /\ \A t \in TextsOf(1) : ~IsBlankText(t)

\* C20: both callbacks are invoked by the translating thread only, never by
\* a thread of a concurrent batch; at most one thread is inside
\* overall_progress_callback, and no worker is active while it runs.
C20_CallbacksFromMainOnly ==
    /\ overall_by \subseteq {Main}
    /\ progress_by \subseteq {Main}
    /\ Cardinality(in_overall) <= 1
    /\ in_overall # {} => \A w \in Workers : wpc[w] = "idle"

\* C20's case: in the second file, after both callbacks have been invoked, a
\* thread of a concurrent batch has put its mapping on the queue.
C20_Witness ==
    /\ fidx = 2
    /\ dpc = "join"
    /\ result_queue # <<>>
    /\ overall_by = {Main}
    /\ progress_by = {Main}

\* A batch of the current document, or a further document, is started.
StartsWork == BatchSequential \/ BatchThreaded \/ OverallProgress

\* C21: once the cancellation signal is raised, no further batch of the
\* current document and no further document is started.
C21_NoStartAfterCancel == [][cancel_requested => ~StartsWork]_vars

\* should_wait(s) would return False now.
Eligible(s) == ~should_wait(request_counts[s], last_request_age[s])

SuccessIndices(files) ==
    SelectSeq([k \in 1..Len(files) |-> k], LAMBDA k : files[k].status = "success")

\* stem is name without its extension: a dot and what follows it, without a
\* further dot.
IsStemOf(stem, name) ==
    \E n \in 1..(Len(name) - 1) :
        /\ stem = SubSeq(name, 1, n)
        /\ name[n + 1] = "."
        /\ \A j \in (n + 2)..Len(name) : name[j] # "."

\* C23: the archive create_zip_file builds from a list of results holds, in
\* order, one entry per successful result, named by the result's file name
\* without its extension followed by "_vietnamese.srt" and holding the
\* result's content, and no entry for a failed result.
C23_ArchiveHoldsSuccesses ==
    cpc = "zipped" =>
        LET ok == SuccessIndices(translated_files)
        IN  /\ Len(zip_file) = Len(ok)
            /\ \A i \in 1..Len(ok) :
                  /\ zip_file[i].content = translated_files[ok[i]].content
                  /\ \E stem \in {SubSeq(zip_file[i].name, 1, n) : n \in 1..Len(zip_file[i].name)} :
                        /\ IsStemOf(stem, translated_files[ok[i]].filename)
                        /\ zip_file[i].name = stem \o Suffix

\* C23's case: an archive built from three results, the first one failed,
\* the other two successful.
C23_Witness ==
    /\ cpc = "zipped"
    /\ Len(translated_files) = 3
    /\ translated_files[1].status = "error"
    /\ translated_files[2].status = "success"
    /\ translated_files[3].status = "success"
    /\ Len(zip_file) = 2

\* translate_single_file_ultra_fast has just been called for the file at fidx.
FileStarts == cpc = "file" /\ dpc = "parse"

\* C24: a file's translation starts from the same engine state whatever the
\* files before it were and however they ended: a pool with every counter 0,
\* the cursor at 0 and no request on record, no text, no mapping, no worker
\* at work, no port call on record.  And its result is made of its own name
\* and entries and of the port's outcomes for its own texts: an error record
\* with the parse error, or the entries with every non-blank text replaced
\* by the outcome for it.
C24_ResultOfOwnDocument ==
    /\ FileStarts =>
          /\ current_translator_index = 0
          /\ request_counts = [s \in Slots |-> 0]
          /\ last_request_age = [s \in Slots |-> Expired]
          /\ texts_to_translate = <<>> /\ translated_texts = EmptyDict /\ batch_idx = 0
          /\ result_queue = <<>>
          /\ \A w \in Workers :
                /\ wpc[w] = "idle" /\ work[w] = <<>> /\ wres[w] = EmptyDict
                /\ sleepLeft[w] = 0 /\ attempt[w] = 0
          /\ port_calls = EmptyDict /\ port_answers = EmptyDict /\ ~port_failed
    /\ (Returned /\ ~Parses(fidx)) =>
          results[fidx] = [filename |-> file_info_list[fidx].name, content |-> NoContent,
                           status |-> "error", subtitle_count |-> -1,
                           error |-> file_info_list[fidx].content.error]
    /\ (Returned /\ Parses(fidx) /\ DeterministicPort) =>
          /\ Len(subs) = Len(Entries(fidx))
          /\ \A k \in 1..Len(subs) :
                subs[k] = [Entries(fidx)[k] EXCEPT
                             !.text = IF IsBlankText(@) THEN @ ELSE Outcome(@)]
          /\ results[fidx] = [filename |-> file_info_list[fidx].name,
                              content |-> srt_to_string(subs), status |-> "success",
                              subtitle_count |-> Len(subs), error |-> ""]

\* C24's case: the third file of a collection has been translated after a
\* file that failed and a file that was translated, through a port that
\* answered.
C24_Witness ==
    /\ Returned
    /\ fidx = 3
    /\ DeterministicPort
    /\ port_answers # EmptyDict
    /\ \E i, j \in 1..2 : results[i].status = "error" /\ results[j].status = "success"
                          /\ TextsOf(j) = {TextA}
    /\ results[3].status = "success"

\* The reference count: zero once the last request is older than the window.
RefCount(count, age) == IF age > Window THEN 0 ELSE count

\* The reference definition of isEligible.
IsEligibleRef(count, age) ==
    ~(age < min_delay_between_requests \/ RefCount(count, age) >= max_requests_per_minute)

\* Worker w's should_wait takes the step that reads the age, or the step
\* that reads the counter.
AgeStep(w) == wpc[w] = "sw_age" /\ wpc'[w] # "sw_age"
CountStep(w) == wpc[w] = "sw_count" /\ wpc'[w] # "sw_count"

\* C25: should_wait is the negation of the reference isEligible.  As a
\* function of a counter and an age it is; and in every call, on the slot
\* state it reads: it returns True at once exactly when the age is below the
\* minimal delay, else leaves the reset count in the slot's counter, and then
\* returns True exactly when that counter has reached the limit.
C25_EligibleMatchesReference ==
    /\ [](\A count \in 0..(max_requests_per_minute + 1), age \in 0..Expired :
             should_wait(count, age) <=> ~IsEligibleRef(count, age))
    /\ [][\A w \in Workers :
             LET s == Slot(w)
                 age == last_request_age[s]
                 count == request_counts[s]
             IN  /\ AgeStep(w) =>
                       /\ (wpc'[w] = "poll") <=> (age < min_delay_between_requests)
                       /\ (wpc'[w] = "sw_count") <=> (age >= min_delay_between_requests)
                       /\ wpc'[w] = "sw_count" => request_counts'[s] = RefCount(count, age)
                 /\ CountStep(w) =>
                       /\ (wpc'[w] = "invoke") <=> IsEligibleRef(count, min_delay_between_requests)
                       /\ (wpc'[w] = "poll") <=> ~IsEligibleRef(count, min_delay_between_requests)
          ]_vars

\* C25's case: should_wait has returned True for a slot whose last request
\* is neither too young nor older than the window, because its counter is
\* at the limit.
C25_Witness ==
    \E w \in Workers :
        /\ wpc[w] = "poll"
        /\ sleepLeft[w] = PollSleep
        /\ request_counts[Slot(w)] = max_requests_per_minute
        /\ last_request_age[Slot(w)] >= min_delay_between_requests
        /\ last_request_age[Slot(w)] <= Window

\* No batch of the current document so far has run more than one worker: the
\* pool has been used by one thread at a time.
SingleThreaded ==
    \A i \in 1..Len(batch_log) :
        batch_log[i].size > threaded_limit \/ batch_log[i].size <= thread_chunk

\* C26: the cursor is always one of the N slot indices; and in
\* single-threaded use each selection is the one before it plus one modulo
\* N, the cursor is the last selection (or has just moved one past it), and
\* N consecutive selections are the N slots.
C26_RoundRobin ==
    /\ current_translator_index \in 0..(NumTranslators - 1)
    /\ \A i \in 1..Len(selections) : selections[i] \in 0..(NumTranslators - 1)
    /\ SingleThreaded =>
          /\ \A i \in 1..(Len(selections) - 1) :
                selections[i + 1] = (selections[i] + 1) % NumTranslators
          /\ selections # <<>> =>
                \/ current_translator_index = selections[Len(selections)]
                \/ current_translator_index = (selections[Len(selections)] + 1) % NumTranslators
          /\ selections = <<>> => current_translator_index \in {0, 1 % NumTranslators}
          /\ Len(selections) = NumTranslators =>
                {selections[i] : i \in 1..Len(selections)} = 0..(NumTranslators - 1)

\* C26's case: N selections in single-threaded use, the last of which
\* wrapped around to slot 0, some of them made by the polling loop.
C26_Witness ==
    /\ SingleThreaded
    /\ batch_log # <<>>
    /\ Len(selections) = NumTranslators
    /\ selections[NumTranslators] = 0
    /\ \E w \in Workers : wpc[w] = "poll"

\* Worker w's call of translate_with_smart_retry has returned.
CallReturned(w) == wpc[w] = "returned"

\* C27: a translate_with_smart_retry call invokes the port at least once and
\* at most max_retries times; at most one of its invocations did not fail,
\* and that one is its last: the call then returns the port's answer.
C27_StopsAtFirstSuccess ==
    \A w \in Workers :
        /\ nCalls[w] \in 0..max_retries
        /\ nCalls[w] - nFails[w] \in {0, 1}
        /\ CallReturned(w) =>
              /\ nCalls[w] >= 1
              /\ nFails[w] < nCalls[w] => translated[w] \in PortAnswers(text[w])
              /\ nFails[w] = nCalls[w] => nCalls[w] = max_retries

\* C27's case: a call has returned the port's answer after max_retries - 1
\* failed attempts.
C27_Witness ==
    \E w \in Workers :
        /\ CallReturned(w)
        /\ nCalls[w] = max_retries
        /\ nFails[w] = max_retries - 1
        /\ translated[w] \in PortAnswers(text[w])

\* Worker w's last attempt failed and it has not begun another one.
JustFailed(w) == nCalls[w] >= 1 /\ nFails[w] = nCalls[w] /\ attempt[w] = nCalls[w] - 1

\* C28: a worker sleeps a backoff exactly after a failed attempt that is
\* not the last one allowed, whatever the error; the sleep lasts 0.2 s to
\* 1.5 s after a rate-limited error and 0.2 s to 0.8 s after another one.  A
\* call that returns has slept one backoff per attempt but the last.
C28_BackoffIffAttemptsRemain ==
    \A w \in Workers :
        /\ wpc[w] = "backoff" =>
              /\ JustFailed(w)
              /\ nCalls[w] < max_retries
              /\ last_failure[w] = "rate" => backoff_ms[w] \in 200..1500
              /\ last_failure[w] = "other" => backoff_ms[w] \in 200..800
              /\ last_failure[w] \in {"rate", "other"}
        /\ wpc[w] # "backoff" => backoff_ms[w] = 0
        /\ (JustFailed(w) /\ nCalls[w] < max_retries) => wpc[w] = "backoff"
        /\ (JustFailed(w) /\ nCalls[w] = max_retries) => CallReturned(w)
        /\ CallReturned(w) => attempt[w] = nCalls[w] - 1

\* C28's case: after a rate-limited error on the attempt before the last
\* one, a worker sleeps the longest backoff.
C28_Witness ==
    \E w \in Workers :
        /\ wpc[w] = "backoff"
        /\ last_failure[w] = "rate"
        /\ backoff_ms[w] = 1500
        /\ nCalls[w] = max_retries - 1

\* should_wait has just returned False to worker w: it will call the port
\* through the slot it holds.
Acquires(w) == CountStep(w) /\ wpc'[w] = "invoke"

\* C29: after an attempt through slot s has failed, the next attempt of the
\* call goes through another slot, unless no other slot is eligible when it
\* acquires s again.
C29_RetryThroughOtherSlot ==
    [][\A w \in Workers :
          (Acquires(w) /\ failed_slot[w] # NoSlot /\ translator[w] = failed_slot[w]) =>
              \A o \in Slots \ {failed_slot[w]} : ~Eligible(o)
      ]_vars

\* The texts of file k that hold a character other than whitespace, in the
\* order of the entries.
ExtractedTexts(k) ==
    LET NotBlank(t) == ~IsBlankText(t)
    IN  SelectSeq([i \in 1..Len(Entries(k)) |-> Entries(k)[i].text], NotBlank)

\* The batches a log announces, one after the other.
RECURSIVE BatchesInOrder(_)
BatchesInOrder(log) ==
    IF log = <<>> THEN <<>> ELSE log[1].batch \o BatchesInOrder(Tail(log))

\* C30: when a parsed document has been processed, the batches announced are
\* the extracted texts cut into contiguous pieces in order; every batch but
\* the last has batch_size texts, the last has between 1 and batch_size;
\* batches are numbered from 1 and every message announces the number of
\* batches that were processed.
C30_BatchesPartitionTexts ==
    (Returned /\ Parses(fidx)) =>
        /\ BatchesInOrder(batch_log) = ExtractedTexts(fidx)
        /\ \A i \in 1..Len(batch_log) :
              /\ batch_log[i].number = i
              /\ batch_log[i].total = Len(batch_log)
              /\ batch_log[i].size = Len(batch_log[i].batch)
              /\ i < Len(batch_log) => batch_log[i].size = batch_size
              /\ batch_log[i].size \in 1..batch_size

\* C30's case: a document processed in a full batch and a shorter last one.
C30_Witness ==
    /\ Returned
    /\ Parses(fidx)
    /\ Len(batch_log) = 2
    /\ batch_log[1].size = batch_size
    /\ batch_log[2].size < batch_size

\* The same program with both scalings of the chunk length: a batch of two
\* texts is translated by two threads, or by one thread that holds both.
InitChunks == InitThreads \/ InitSized(ThreadInputs, {"reliable"}, WholeBatchChunk)
SpecChunks == InitChunks /\ [][Next]_vars

\* The sequences of a sequence, one after the other.
RECURSIVE Flatten(_)
Flatten(ss) == IF ss = <<>> THEN <<>> ELSE ss[1] \o Flatten(Tail(ss))

\* C31 as stated: a batch of at most threaded_limit texts has one worker
\* thread per text, and a longer batch has none.
C31_OneWorkerPerText ==
    \A i \in 1..Len(batch_log) :
        IF batch_log[i].size <= threaded_limit
        THEN /\ Len(batch_log[i].chunks) = batch_log[i].size
             /\ \A t \in 1..Len(batch_log[i].chunks) : Len(batch_log[i].chunks[t]) = 1
        ELSE batch_log[i].chunks = <<>>

\* C31: a batch of at most threaded_limit texts is cut into contiguous chunks
\* of the chunk length, the last one possibly shorter, and one worker thread
\* is started per chunk (at least one, never more than the batch has texts)
\* and translates the texts of its chunk; the translating thread itself
\* translates nothing meanwhile.  A longer batch is translated by the
\* translating thread and no worker thread runs.
C31_OneWorkerPerChunk ==
    /\ \A i \in 1..Len(batch_log) :
          LET e == batch_log[i]
          IN  IF e.size <= threaded_limit
              THEN /\ Len(e.chunks) = (e.size + thread_chunk - 1) \div thread_chunk
                   /\ Len(e.chunks) \in 1..e.size
                   /\ Flatten(e.chunks) = e.batch
                   /\ \A t \in 1..Len(e.chunks) :
                         /\ Len(e.chunks[t]) \in 1..thread_chunk
                         /\ t < Len(e.chunks) => Len(e.chunks[t]) = thread_chunk
              ELSE e.chunks = <<>>
    /\ dpc = "sequential" =>
          /\ batch_log[Len(batch_log)].size > threaded_limit
          /\ \A t \in Threads : wpc[t] = "idle"
    /\ dpc = "join" =>
          /\ batch_log[Len(batch_log)].size <= threaded_limit
          /\ wpc[Main] = "idle"
          /\ \A t \in Threads :
                wpc[t] # "idle" =>
                    /\ t <= Len(batch_log[Len(batch_log)].chunks)
                    /\ work[t] = batch_log[Len(batch_log)].chunks[t]
                    /\ pos[t] \in 1..Len(work[t])
                    /\ text[t] = work[t][pos[t]]

\* C31's case: one worker thread is on the second text of its chunk, the
\* whole batch, and no other thread runs.
C31_Witness ==
    /\ dpc = "join"
    /\ Len(batch_log[Len(batch_log)].chunks) = 1
    /\ batch_log[Len(batch_log)].size = 2
    /\ wpc[1] = "in_call"
    /\ pos[1] = 2
    /\ \A t \in Threads \ {1} : wpc[t] = "idle"

\* No worker is inside translate_with_smart_retry or a worker function.
AllIdle == \A w \in Workers : wpc[w] = "idle"

\* The batch that was started last.
LastBatch == batch_log[Len(batch_log)]

\* C32: the results of a concurrent batch are merged in one step, taken only
\* when every thread of the batch has ended and has put its mapping in the
\* queue; after it the document's mapping holds every text of the batch.
\* Outside a batch no worker is active and the queue is empty, and a batch
\* starts only when no worker is active: no port call of a batch is pending
\* when the next batch starts.
C32_JoinedBeforeMerge ==
    /\ [](dpc \notin {"join", "sequential"} => (AllIdle /\ result_queue = <<>>))
    /\ [][/\ (dpc = "join" /\ (dpc' # "join" \/ translated_texts' # translated_texts)) =>
                /\ AllIdle
                /\ Len(result_queue) = Len(LastBatch.chunks)
                /\ \A t \in Range(LastBatch.batch) : t \in DOMAIN translated_texts'
                /\ result_queue' = <<>>
          /\ (dpc = "sequential" /\ dpc' # "sequential") =>
                /\ \A t \in Threads : wpc[t] = "idle"
                /\ wpc[Main] = "returned"
                /\ \A t \in Range(LastBatch.batch) : t \in DOMAIN translated_texts'
          /\ Len(batch_log') > Len(batch_log) => AllIdle
      ]_vars

\* C32's case: the second batch of a document has been started, two threads
\* have put their mappings in the queue and the merge has yet to happen.
C32_Witness ==
    /\ dpc = "join"
    /\ Len(batch_log) = 2
    /\ Len(result_queue) = 2
    /\ AllIdle

\* The loop of lines 199-216 has processed every batch of the document.
AllBatchesDone == dpc = "batch" /\ batch_idx >= Len(texts_to_translate)

\* C33: when every batch of a document has been processed, the keys of the
\* document's mapping are the texts of the document that are not blank, and
\* each is mapped to an answer the port gave for it or to itself; the
\* substitution that follows gives every entry whose text is not blank the
\* value mapped to its original text and leaves the other entries' texts.
C33_CompleteMapping ==
    /\ [](AllBatchesDone =>
            /\ DOMAIN translated_texts = {t \in TextsOf(fidx) : ~IsBlankText(t)}
            /\ \A t \in DOMAIN translated_texts :
                  translated_texts[t] \in Answers(t) \cup {t})
    /\ [][(AllBatchesDone /\ dpc' = "idle") =>
             /\ Len(subs') = Len(Entries(fidx))
             /\ \A k \in 1..Len(Entries(fidx)) :
                   subs'[k].text = IF IsBlankText(Entries(fidx)[k].text)
                                   THEN Entries(fidx)[k].text
                                   ELSE translated_texts[Entries(fidx)[k].text]
      ]_vars

\* C33's case: a document of two batches has been processed; one of its
\* texts fell back to itself and another one got an answer of the port.
C33_Witness ==
    /\ AllBatchesDone
    /\ Len(batch_log) = 2
    /\ \E t, u \in DOMAIN translated_texts :
          /\ translated_texts[t] = t
          /\ translated_texts[u] \in Answers(u)

\* Fraction a is smaller than fraction b (positive denominators).
FracLess(a, b) == a.num * b.den < b.num * a.den

\* C34: overall_progress_callback has been invoked once for every file that
\* has a result and once for the file being processed, and for no other;
\* while it runs, the result of every earlier file exists, the file's own
\* processing has not begun and no worker is active; its values are
\* fractions between 0 and 1, each larger than the one before; when the run
\* ends it has been invoked once per submitted file.
C34_OverallProgressOncePerFile ==
    /\ Len(overall_log) = Len(results) + (IF cpc \in {"overall", "file"} THEN 1 ELSE 0)
    /\ cpc = "overall" =>
          /\ Len(results) = fidx - 1
          /\ Len(overall_log) = fidx
          /\ dpc = "idle"
          /\ AllIdle
    /\ \A j \in 1..Len(overall_log) :
          /\ overall_log[j].den > 0
          /\ overall_log[j].num >= 0
          /\ overall_log[j].num <= overall_log[j].den
          /\ j > 1 => FracLess(overall_log[j - 1], overall_log[j])
    /\ cpc \in {"done", "zipped"} => Len(overall_log) = Len(file_info_list)

\* C34's case: the callback runs for the third file of three.
C34_Witness ==
    /\ cpc = "overall"
    /\ Len(overall_log) = 3
    /\ Len(file_info_list) = 3

\* C35, behind a port that never fails: two port calls made through the same
\* slot start at least min_delay_between_requests apart.
C35_MinDelayPerSlot ==
    port_mode = "reliable" =>
        \A s \in Slots :
            \A k \in 1..(Len(issued[s]) - 1) :
                issued[s][k + 1] - issued[s][k] >= min_delay_between_requests

\* The largest number of workers that have shared the document's pool at a
\* time: the threads of its concurrent batch, or the translating thread.
RECURSIVE MostChunks(_)
MostChunks(log) ==
    IF log = <<>> THEN 1 ELSE Max(Len(log[1].chunks), MostChunks(Tail(log)))
PoolWorkers == MostChunks(batch_log)

\* C36: a slot's counter is never negative; it is at most
\* max_requests_per_minute while one worker at a time has used the pool, and
\* at most max_requests_per_minute + (W - 1) when W threads of a concurrent
\* batch have shared it.
C36_BoundedOvershoot ==
    \A s \in Slots :
        /\ request_counts[s] >= 0
        /\ request_counts[s] <= max_requests_per_minute + (PoolWorkers - 1)

\* C36's case: two threads share the pool and a slot's counter is one above
\* the limit.
C36_Witness ==
    /\ dpc = "join"
    /\ PoolWorkers = 2
    /\ \E s \in Slots : request_counts[s] = max_requests_per_minute + 1

\* Worker w holds the pair get_next_translator returned to it.
HoldsSlot(w) == wpc[w] \in {"sw_age", "sw_count", "invoke", "in_call", "inc_write", "set_last"}

\* C37: the translator object and the index get_next_translator returned to
\* a worker denote the same slot: the slot whose channel carries the
\* worker's request is the slot whose counter and time are checked and
\* updated for it.
C37_ObjectAndIndexAgree ==
    \A w \in Workers : HoldsSlot(w) => translator[w] = translator_index[w]

\* The port call of worker w ends in this step with an error.
CallFails(w) == wpc[w] = "in_call" /\ nFails'[w] = nFails[w] + 1

\* C38: the step in which a port call fails with another error than a rate
\* limit changes no slot's counter and no slot's time; the step in which it
\* fails as rate-limited changes no slot's time and no counter but that of
\* the slot the call was issued for (its translator_index), which is then at
\* the limit.  A slot's last request becomes more recent only in the step in
\* which a worker whose port call for the slot returned an answer records
\* the call's time.
C38_FailureLeavesTimes ==
    [][/\ \A w \in Workers :
             /\ (CallFails(w) /\ last_failure'[w] = "other") =>
                    /\ request_counts' = request_counts
                    /\ last_request_age' = last_request_age
             /\ (CallFails(w) /\ last_failure'[w] = "rate") =>
                    /\ last_request_age' = last_request_age
                    /\ request_counts' =
                          [request_counts EXCEPT ![translator_index[w]] = max_requests_per_minute]
       /\ \A s \in Slots :
             last_request_age'[s] < last_request_age[s] =>
                 \E w \in Workers :
                     /\ wpc[w] = "set_last"
                     /\ translator_index[w] = s
                     /\ translated[w] \in Answers(text[w])
                     /\ nFails'[w] = nFails[w]
      ]_vars

\* C38's case: a call has failed as rate-limited through a slot that had
\* answered a request less than a window ago: the slot's counter is at the
\* limit and its time is the one the answered request left.
C38_Witness ==
    \E w \in Workers :
        /\ wpc[w] = "backoff"
        /\ last_failure[w] = "rate"
        /\ request_counts[failed_slot[w]] = max_requests_per_minute
        /\ last_request_age[failed_slot[w]] < Expired
        /\ used[failed_slot[w]]

====
